---- MODULE Spec2Model ----
(***************************************************************************)
(* prompt-toolkit-table: the row model (model.py), the column allocator    *)
(* (control.py) and the focus navigation of the Table widget (widgets.py). *)
(*                                                                         *)
(* A text is a sequence of one-character strings, so that slicing,         *)
(* stripping, padding and line breaks are computed and not assumed.        *)
(* A style is the sequence of its comma separated tags.                    *)
(* A segment is a pair <<style, text>>.                                    *)
(***************************************************************************)
EXTENDS Integers, Sequences, FiniteSets, TLC

VARIABLES
    values,          \* widgets.py Table.values / control.py TableControl.data
    columns,         \* model.py Header.columns: the column names
    cells,           \* model.py Row.cells of every row
    row_dims,        \* model.py _Row.widths of every row (set at construction)
    focused,         \* model.py Row.focused of every row
    padding,         \* model.py _Row.padding
    separator,       \* model.py _Row.separator
    _selected_index, \* widgets.py Table._selected_index
    text,            \* control.py TableControl.text, once rendered
    header_text,     \* control.py TableControl.header_text, once rendered
    row_widths,      \* control.py create_text: the widths of the last allocation
    wrap_cache,      \* model.py lru_cache of _Row._wrap_row: (row, widths) -> lines
    key_buffer,      \* KeyProcessor.key_buffer: the keys pressed and not yet handled
    current_value,   \* widgets.py Table.current_value, once assigned
    raised,          \* the exception the last handler ended with, or "none"
    event            \* the last handler run: its name, its input (for a render, the
                     \* number of rows it took from the cache), the focus before it

vars == <<values, columns, cells, row_dims, focused, padding, separator,
          _selected_index, text, header_text, row_widths, wrap_cache, key_buffer,
          current_value, raised, event>>

----------------------------------------------------------------------------
(* Bounds of the model *)

MaxRows == 2          \* rows of a table of Spec
MaxNavRows == 3       \* rows of a table of SpecNav
MaxLayoutRows == 2    \* rows of a table of SpecLayout
MaxWidth == 10        \* largest width handed to create_content
MaxDisplayed == 2     \* largest number of lines a window displays
MaxPadding == 1       \* largest padding of SpecLayout
MaxTextLen == 4       \* longest cell text of SpecWrap
MaxDataRows == 2      \* rows of a data source of SpecConstruct
MaxWrapWidth == 6     \* largest width handed to create_content in SpecWrap
MaxEditRows == 1      \* rows of a table of SpecEdit

----------------------------------------------------------------------------
(* Characters and Python's string operations *)

NL == "\n"
SP == " "
RULE == "-"   \* stands for the box-drawing rule of Header.create_text

\* Table.current_value before any assignment: the attribute does not exist
NoValue == <<>>

Max(a, b) == IF a >= b THEN a ELSE b
Min(a, b) == IF a <= b THEN a ELSE b

RECURSIVE SumSeq(_)
SumSeq(s) == IF s = <<>> THEN 0 ELSE Head(s) + SumSeq(Tail(s))

RECURSIVE MaxSeq(_)
MaxSeq(s) == IF Len(s) = 1 THEN s[1] ELSE Max(Head(s), MaxSeq(Tail(s)))

\* c * n
Repeat(c, n) == [i \in 1..n |-> c]

\* s[a:b], 0-based, b exclusive, cut at the end of s
Slice(s, a, b) == SubSeq(s, a + 1, Min(b, Len(s)))

IsSpace(c) == c \in {SP, NL}

RECURSIVE lstrip(_)
lstrip(s) == IF s # <<>> /\ IsSpace(Head(s)) THEN lstrip(Tail(s)) ELSE s

RECURSIVE rstrip(_)
rstrip(s) ==
    IF s # <<>> /\ IsSpace(s[Len(s)]) THEN rstrip(SubSeq(s, 1, Len(s) - 1)) ELSE s

strip(s) == rstrip(lstrip(s))

ljust(s, width) == IF Len(s) >= width THEN s ELSE s \o Repeat(SP, width - Len(s))

\* s.index("\n"), 0-based; s holds a line break
RECURSIVE index(_, _)
index(s, c) == IF Head(s) = c THEN 0 ELSE 1 + index(Tail(s), c)

Contains(s, c) == \E i \in 1..Len(s) : s[i] = c

\* s.splitlines(): the lines between the breaks, no empty line after a final break
RECURSIVE splitlines(_)
splitlines(s) ==
    IF s = <<>> THEN <<>>
    ELSE IF Contains(s, NL)
         THEN <<Slice(s, 0, index(s, NL))>> \o splitlines(Slice(s, index(s, NL) + 1, Len(s)))
         ELSE <<s>>

lower_char(c) == CASE c = "A" -> "a" [] c = "X" -> "x" [] OTHER -> c
lower(s) == [i \in 1..Len(s) |-> lower_char(s[i])]

startswith(s, prefix) == Len(prefix) <= Len(s) /\ SubSeq(s, 1, Len(prefix)) = prefix

----------------------------------------------------------------------------
(* model.py: _Row *)

MinCellWidth == 3
MarginWidth == 1

\* prompt_toolkit Dimension(min, preferred, weight): preferred is kept >= min
Dimension(min, preferred, weight) ==
    [min |-> min, preferred |-> Max(min, preferred), weight |-> weight]

\* _Row._create_widths, one cell: Dimension(min=3, preferred=longest line + 2 * padding)
cell_dimension(cell, pad) ==
    Dimension(MinCellWidth,
              MaxSeq([i \in 1..Len(splitlines(cell)) |-> Len(splitlines(cell)[i])]) + 2 * pad,
              1)

separator_dimension(sep) == Dimension(Len(sep), Len(sep), 0)

margin_dimension == Dimension(MarginWidth, MarginWidth, 0)

\* _Row._create_widths: cell, separator, cell, ..., cell, right margin
_create_widths(row_cells, pad, sep) ==
    [k \in 1..(2 * Len(row_cells)) |->
        IF k = 2 * Len(row_cells) THEN margin_dimension
        ELSE IF k % 2 = 1 THEN cell_dimension(row_cells[(k + 1) \div 2], pad)
        ELSE separator_dimension(sep)]

\* _Row._wrap_row, the loop over one cell's text: text_index is the cursor,
\* cell_lines the lines emitted so far. err: selected_text[1] read past the end.
RECURSIVE wrap_cell(_, _, _, _)
wrap_cell(cell, width, text_index, cell_lines) ==
    LET min_width == Max(width - 2, 1)
        new_index == text_index + min_width
        selected_text == Slice(cell, text_index, new_index)
    IN  IF ~(text_index <= Len(cell) - 1)
        THEN [err |-> FALSE, lines |-> cell_lines]
        ELSE IF Contains(selected_text, NL)
             THEN LET break_index == index(selected_text, NL)
                  IN  IF break_index = 0
                      THEN IF Len(selected_text) < 2
                           THEN [err |-> TRUE, lines |-> cell_lines]
                           ELSE IF selected_text[2] = NL
                                THEN wrap_cell(cell, width, text_index + 2,
                                               Append(cell_lines, ljust(<<SP>>, width)))
                                ELSE wrap_cell(cell, width, text_index + 1, cell_lines)
                      ELSE wrap_cell(cell, width, text_index + break_index,
                                     Append(cell_lines,
                                            ljust(<<SP>> \o strip(Slice(selected_text, 0, break_index))
                                                         \o <<SP>>, width)))
             ELSE wrap_cell(cell, width, new_index,
                            Append(cell_lines,
                                   ljust(<<SP>> \o strip(selected_text) \o <<SP>>, width)))

\* _Row._wrap_row: every cell wrapped to its width, separators and right margin
\* added, every element filled up to the height of the tallest, lines merged.
row_elements(row_cells, sep, column_widths) ==
    [k \in 1..(2 * Len(row_cells)) |->
        IF k = 2 * Len(row_cells) THEN <<Repeat(SP, column_widths[Len(column_widths)])>>
        ELSE IF k % 2 = 1
             THEN wrap_cell(row_cells[(k + 1) \div 2], column_widths[k], 0, <<>>).lines
             ELSE <<sep>>]

\* fill_element with the fill one character short of the element's width
fill_element_short(element_lines, element_width, max_height) ==
    element_lines \o [i \in 1..(max_height - Len(element_lines)) |->
                         Repeat(SP, element_width - 1)]

fill_element(element_lines, element_width, max_height) ==
    element_lines \o [i \in 1..(max_height - Len(element_lines)) |-> Repeat(SP, element_width)]

\* the elements filled up to max_height
fill_elements(elements, column_widths, max_height) ==
    [k \in 1..Len(elements) |-> fill_element(elements[k], column_widths[k], max_height)]

\* line n of the row is the n-th line of every element, in order
merge_lines(filled, max_height) ==
    [line_number \in 1..max_height |-> [k \in 1..Len(filled) |-> filled[k][line_number]]]

\* Variant of element_heights: only the height of the first element
element_heights_of_first(elements) == <<Len(elements[1])>>

\* the number of lines of every element of the row
element_heights(elements) == [k \in 1..Len(elements) |-> Len(elements[k])]

wrap_elements(row_cells, elements, column_widths) ==
    [err |-> \E c \in 1..Len(row_cells) :
                wrap_cell(row_cells[c], column_widths[2 * c - 1], 0, <<>>).err,
     lines |-> merge_lines(fill_elements(elements, column_widths,
                                         MaxSeq(element_heights(elements))),
                           MaxSeq(element_heights(elements)))]

_wrap_row(row_cells, sep, column_widths) ==
    wrap_elements(row_cells, row_elements(row_cells, sep, column_widths), column_widths)

\* Variant of _create_style_and_text_tuples: the break written at the end of the
\* last text of each line instead of in a segment of its own
tuples_with_inner_breaks(style, lines) ==
    IF lines = <<>> THEN <<>>
    ELSE [k \in 1..(Len(lines) * Len(lines[1])) |->
             <<style,
               lines[((k - 1) \div Len(lines[1])) + 1][((k - 1) % Len(lines[1])) + 1]
                   \o (IF k % Len(lines[1]) = 0 THEN <<NL>> ELSE <<>>)>>]

\* _Row._create_style_and_text_tuples: the row style on every text of every line,
\* and on the line break that ends each line
RECURSIVE _create_style_and_text_tuples(_, _)
_create_style_and_text_tuples(style, lines) ==
    IF lines = <<>> THEN <<>>
    ELSE [k \in 1..Len(Head(lines)) |-> <<style, Head(lines)[k]>>]
         \o <<<<style, <<NL>>>>>>
         \o _create_style_and_text_tuples(style, Tail(lines))

\* Row.style: the base style, with the focus and cursor markers when focused
FocusMarkers == <<"focused", "[SetCursorPosition]">>
HeaderStyle == <<"class:header">>

\* Row_style that forgets the focus
Row_style_unmarked(base_style, is_focused) == base_style

Row_style(base_style, is_focused) ==
    IF is_focused THEN base_style \o FocusMarkers ELSE base_style

\* functools.lru_cache around _Row._wrap_row. The key is the row object (rows
\* hash by id_ and compare by identity: 0 is the header, r the r-th row) and the
\* tuple of widths. A call that raises stores nothing. The cache holds 128
\* entries, more than a table of the model fills.
cache_key(row, column_widths) == <<row, column_widths>>

lru_cache_call(cache, key, row_cells, sep, column_widths) ==
    IF key \in DOMAIN cache
    THEN [err |-> FALSE, lines |-> cache[key], hit |-> 1]
    ELSE [err |-> _wrap_row(row_cells, sep, column_widths).err,
          lines |-> _wrap_row(row_cells, sep, column_widths).lines,
          hit |-> 0]

\* Variant of lru_cache_store: the stored lines are the ones create_text goes
\* on to edit, so the margin of their first line is stored one space longer
lru_cache_store_aliased(cache, key, wrapped) ==
    IF wrapped.err \/ key \in DOMAIN cache THEN cache
    ELSE [k \in DOMAIN cache \cup {key} |->
             IF k = key
             THEN [i \in 1..Len(wrapped.lines) |->
                      [j \in 1..Len(wrapped.lines[i]) |->
                          IF i = 1 /\ j = Len(wrapped.lines[i])
                          THEN wrapped.lines[i][j] \o <<SP>>
                          ELSE wrapped.lines[i][j]]]
             ELSE cache[k]]

lru_cache_store(cache, key, wrapped) ==
    IF wrapped.err \/ key \in DOMAIN cache THEN cache
    ELSE [k \in DOMAIN cache \cup {key} |-> IF k = key THEN wrapped.lines ELSE cache[k]]

\* _Row.create_text: the lines of _wrap_row, through its cache, with the style
styled(wrapped, style) ==
    [err |-> wrapped.err, text |-> _create_style_and_text_tuples(style, wrapped.lines)]

text_and_cache(cache, key, wrapped, style) ==
    [err |-> wrapped.err,
     text |-> styled(wrapped, style).text,
     cache |-> lru_cache_store(cache, key, wrapped),
     hits |-> wrapped.hit]

_Row_create_text(cache, row, row_cells, sep, style, column_widths) ==
    text_and_cache(cache, cache_key(row, column_widths),
                   lru_cache_call(cache, cache_key(row, column_widths), row_cells, sep,
                                  column_widths),
                   style)

\* Header.create_text: the header line with its margin extended by one space,
\* followed by a rule as long as each of its parts
extend_margin(row_text) ==
    [k \in 1..Len(row_text) |->
        IF k = Len(row_text) - 1 THEN <<row_text[k][1], row_text[k][2] \o <<SP>>>>
        ELSE row_text[k]]

rule_text(header) ==
    [k \in 1..(Len(header) - 1) |-> <<header[k][1], Repeat(RULE, Len(header[k][2]))>>]

header_and_rule(header) == header \o rule_text(header)

underlined(base) ==
    [err |-> base.err, text |-> header_and_rule(extend_margin(base.text)),
     cache |-> base.cache, hits |-> base.hits]

Header_create_text(cache, header_cells, sep, column_widths) ==
    underlined(_Row_create_text(cache, 0, header_cells, sep, HeaderStyle, column_widths))

----------------------------------------------------------------------------
(* control.py: the column allocator *)

is_zero(d) == d.preferred = 0

\* prompt_toolkit max_layout_dimensions: the largest min and the largest preferred
\* of the dimensions that are not zero; the result has the default weight 1
max_layout_dimensions(dimensions) ==
    LET live == SelectSeq(dimensions, LAMBDA d : ~is_zero(d))
    IN  IF live = <<>> THEN dimensions[1]
        ELSE Dimension(MaxSeq([i \in 1..Len(live) |-> live[i].min]),
                       MaxSeq([i \in 1..Len(live) |-> live[i].preferred]),
                       1)

\* prompt_toolkit sum_layout_dimensions
sum_layout_dimensions(dimensions) ==
    [min |-> SumSeq([i \in 1..Len(dimensions) |-> dimensions[i].min]),
     preferred |-> SumSeq([i \in 1..Len(dimensions) |-> dimensions[i].preferred])]

\* Variant of new_generator: the first item is owed one turn
new_generator_ahead(items) ==
    [i |-> 0, already_taken |-> [k \in 1..Len(items) |-> IF k = 1 THEN -1 ELSE 0],
     pos |-> 1, adding |-> FALSE]

\* prompt_toolkit take_using_weights, as a generator state: round i, the number
\* of times each item was taken, the position in the pass, whether the pass took
\* an item. next_item runs it to its next yield.
new_generator(items) ==
    [i |-> 0, already_taken |-> [k \in 1..Len(items) |-> 0], pos |-> 1, adding |-> FALSE]

RECURSIVE next_item(_, _, _)
next_item(items, weights, g) ==
    IF g.pos > Len(items)
    THEN IF g.adding
         THEN next_item(items, weights, [g EXCEPT !.pos = 1, !.adding = FALSE])
         ELSE next_item(items, weights, [g EXCEPT !.i = g.i + 1, !.pos = 1])
    ELSE IF g.already_taken[g.pos] * MaxSeq(weights) < g.i * weights[g.pos]
         THEN [item |-> items[g.pos],
               gen |-> [g EXCEPT !.already_taken[g.pos] = @ + 1,
                                 !.pos = g.pos + 1, !.adding = TRUE]]
         ELSE next_item(items, weights, [g EXCEPT !.pos = g.pos + 1])

\* Variant of grown: the selected column takes two units
grown_by_two(sizes, chosen, preferred_dimensions) ==
    IF sizes[chosen] < preferred_dimensions[chosen]
    THEN [sizes EXCEPT ![chosen] = @ + 2] ELSE sizes

\* _divide_widths, one pass of the loop body: the selected column grows by one
\* if it is below its preferred size
grown(sizes, chosen, preferred_dimensions) ==
    IF sizes[chosen] < preferred_dimensions[chosen]
    THEN [sizes EXCEPT ![chosen] = @ + 1] ELSE sizes

\* _divide_widths, the loop: grow the selected column, take the next one, until
\* the sizes add up to preferred_stop. selections counts the passes of the loop.
RECURSIVE grow(_, _, _, _, _, _, _)
grow(sizes, taken, items, weights, preferred_dimensions, preferred_stop, selections) ==
    IF ~(SumSeq(sizes) < preferred_stop) THEN [sizes |-> sizes, selections |-> selections]
    ELSE grow(grown(sizes, taken.item, preferred_dimensions),
              next_item(items, weights, taken.gen),
              items, weights, preferred_dimensions, preferred_stop, selections + 1)

\* last_column that leaves the right margin as it was allocated
last_column_untouched(sizes, width) == sizes

\* sizes[-1] = max(sizes[-1], width - sum(sizes[:-1]))
last_column(sizes, width) ==
    [sizes EXCEPT ![Len(sizes)] =
        Max(sizes[Len(sizes)], width - SumSeq(SubSeq(sizes, 1, Len(sizes) - 1)))]

\* _divide_widths: the largest dimension of every column over the header and the rows
column_dimensions(rows) ==
    [k \in 1..Len(rows[1]) |-> max_layout_dimensions([r \in 1..Len(rows) |-> rows[r][k]])]

\* The indexes of the columns that take part in the growth: those of weight > 0
weighted_items(column_widths) ==
    SelectSeq([k \in 1..Len(column_widths) |-> k], LAMBDA k : column_widths[k].weight > 0)

item_weights(column_widths, items) == [j \in 1..Len(items) |-> column_widths[items[j]].weight]

minimum_sizes(column_widths) == [k \in 1..Len(column_widths) |-> column_widths[k].min]

\* Variant of preferred_sizes: one more than the preferred size
preferred_sizes_raised(column_widths) ==
    [k \in 1..Len(column_widths) |-> column_widths[k].preferred + 1]

preferred_sizes(column_widths) == [k \in 1..Len(column_widths) |-> column_widths[k].preferred]

\* The growth from the minimum sizes
growth(column_widths, items, weights, width) ==
    grow(minimum_sizes(column_widths),
         next_item(items, weights, new_generator(items)),
         items, weights, preferred_sizes(column_widths),
         Min(width, sum_layout_dimensions(column_widths).preferred), 0)

\* The growth, then the last column takes what is left
divide(column_widths, items, weights, width) ==
    last_column(growth(column_widths, items, weights, width).sizes, width)

\* divide_columns without the check of the available space
divide_columns_unchecked(column_widths, width) ==
    [raised |-> FALSE,
     sizes |-> divide(column_widths, weighted_items(column_widths),
                      item_weights(column_widths, weighted_items(column_widths)),
                      width)]

divide_columns(column_widths, width) ==
    IF sum_layout_dimensions(column_widths).min > width
    THEN [raised |-> TRUE, sizes |-> <<>>]
    ELSE [raised |-> FALSE,
          sizes |-> divide(column_widths, weighted_items(column_widths),
                           item_weights(column_widths, weighted_items(column_widths)),
                           width)]

\* _divide_widths: rows is the dimension vector of the header and of every row
_divide_widths(rows, width) == divide_columns(column_dimensions(rows), width)

----------------------------------------------------------------------------
(* control.py: create_text and create_content, over the rows of model.py *)

\* Variant of the base style: every row takes the style of the odd positions
row_base_style_single(position) == <<"class:row">>

\* _create_rows: the base style alternates with the row position (0-based)
row_base_style(position) ==
    IF position % 2 = 0 THEN <<"class:row.alternate">> ELSE <<"class:row">>

header_dims(header_cells, pad, sep) == _create_widths(header_cells, pad, sep)

\* The body: every row's create_text at the allocated widths, in row order, up
\* to the first row that raises
join_texts(row, rest) ==
    [err |-> rest.err, text |-> row.text \o rest.text, cache |-> rest.cache,
     hits |-> row.hits + rest.hits]

RECURSIVE body_text(_, _, _, _, _, _)
rows_after(row, all_cells, flags, sep, column_widths, done) ==
    IF row.err THEN [err |-> TRUE, text |-> <<>>, cache |-> row.cache, hits |-> row.hits]
    ELSE join_texts(row, body_text(row.cache, all_cells, flags, sep, column_widths, done + 1))

body_text(cache, all_cells, flags, sep, column_widths, done) ==
    IF done = Len(all_cells) THEN [err |-> FALSE, text |-> <<>>, cache |-> cache, hits |-> 0]
    ELSE rows_after(_Row_create_text(cache, done + 1, all_cells[done + 1], sep,
                                     Row_style(row_base_style(done), flags[done + 1]),
                                     column_widths),
                    all_cells, flags, sep, column_widths, done)

\* create_text after the allocation: the header text, then the body. raised is
\* the exception it ends with; header_set tells whether self.header_text was
\* assigned before it; cache is the cache of _wrap_row after it and hits the
\* number of rows it took from the cache.
texts_at(header, body, sizes) ==
    IF body.err
    THEN [raised |-> "IndexError", row_widths |-> sizes, header_set |-> TRUE,
          header_text |-> header.text, text |-> <<>>,
          cache |-> body.cache, hits |-> header.hits + body.hits]
    ELSE [raised |-> "none", row_widths |-> sizes, header_set |-> TRUE,
          header_text |-> header.text, text |-> body.text,
          cache |-> body.cache, hits |-> header.hits + body.hits]

body_under(header, all_cells, flags, sep, sizes) ==
    IF header.err
    THEN [raised |-> "IndexError", row_widths |-> sizes, header_set |-> FALSE,
          header_text |-> <<>>, text |-> <<>>, cache |-> header.cache, hits |-> 0]
    ELSE texts_at(header, body_text(header.cache, all_cells, flags, sep, sizes, 0), sizes)

allocated_text(cache, header_cells, all_cells, flags, sep, alloc) ==
    IF alloc.raised
    THEN [raised |-> "ValueError", row_widths |-> <<>>, header_set |-> FALSE,
          header_text |-> <<>>, text |-> <<>>, cache |-> cache, hits |-> 0]
    ELSE body_under(Header_create_text(cache, header_cells, sep, alloc.sizes),
                    all_cells, flags, sep, alloc.sizes)

\* create_text: allocate the widths over the header's and the rows' dimensions,
\* then build the texts
create_text(cache, header_cells, all_cells, dims, flags, pad, sep, max_available_width) ==
    allocated_text(cache, header_cells, all_cells, flags, sep,
                   _divide_widths(<<header_dims(header_cells, pad, sep)>> \o dims,
                                  max_available_width))

\* The render of the current state at a width
rendered(w) ==
    create_text(wrap_cache, columns, cells, row_dims, focused, padding, separator, w)

\* The narrowest width asked for holds two cells of minimum width and a margin,
\* but not the separator between them; the widest holds the preferred widths.
\* One more than the narrowest holds the minimum widths with a separator of
\* one character.
LoWidth == 2 * MinCellWidth + MarginWidth
Widths == {LoWidth, LoWidth + 1, MaxWidth}
LayoutWidths == {LoWidth + 1, MaxWidth}

\* create_content(width): self.text = self.create_text(width)
assign_text(r, w) ==
    /\ raised' = r.raised
    /\ row_widths' = IF r.raised = "ValueError" THEN row_widths ELSE r.row_widths
    /\ header_text' = IF r.header_set THEN r.header_text ELSE header_text
    /\ text' = IF r.raised = "none" THEN r.text ELSE text
    /\ wrap_cache' = r.cache
    /\ event' = [op |-> "create_content", data |-> <<r.hits>>, n |-> w,
                 from |-> _selected_index]
    /\ UNCHANGED <<values, columns, cells, row_dims, focused, padding, separator,
                   _selected_index, key_buffer, current_value>>

create_content(w) == assign_text(rendered(w), w)

----------------------------------------------------------------------------
(* widgets.py: the key handlers of Table *)

\* The focus follows the selected index: the row that had it is unfocused and
\* the selected row focused, in one step
move_focus(flags, old, new) ==
    [[flags EXCEPT ![old + 1] = FALSE] EXCEPT ![new + 1] = TRUE]

\* Variant of select: the handler also drops the rendered body
select_dropping_text(new, op, data, n, exc) ==
    /\ _selected_index' = new
    /\ focused' = move_focus(focused, _selected_index, new)
    /\ event' = [op |-> op, data |-> data, n |-> n, from |-> _selected_index]
    /\ raised' = exc
    /\ text' = <<>>
    /\ UNCHANGED <<values, columns, cells, row_dims, padding, separator,
                   header_text, row_widths, wrap_cache, key_buffer, current_value>>

\* A key handler ends: the selected index, the focus that follows it, and the
\* exception the handler ended with
select(new, op, data, n, exc) ==
    /\ _selected_index' = new
    /\ focused' = move_focus(focused, _selected_index, new)
    /\ event' = [op |-> op, data |-> data, n |-> n, from |-> _selected_index]
    /\ raised' = exc
    /\ UNCHANGED <<values, columns, cells, row_dims, padding, separator,
                   text, header_text, row_widths, wrap_cache, key_buffer, current_value>>

\* up_index that moves two rows
up_index_twice(current) == Max(0, current - 2)

up_index(current) == Max(0, current - 1)

down_index(current, vals) == Min(Len(vals) - 1, current + 1)

\* displayed = 0: the window has no render_info yet and the handler does nothing
pageup_index(current, displayed) ==
    IF displayed = 0 THEN current ELSE Max(0, current - displayed)

\* pagedown_index that does not stop at the last row
pagedown_index_unclamped(current, vals, displayed) == current + displayed

pagedown_index(current, vals, displayed) ==
    IF displayed = 0 THEN current ELSE Min(Len(vals) - 1, current + displayed)

\* fragment_list_to_text(to_formatted_text(value)) of a row that is a list of
\* texts: the list is taken as a list of (style, text) fragments, so every cell
\* gives its character at index 1, and a cell shorter than two characters
\* raises IndexError
fragment_list_to_text(value) == [k \in 1..Len(value) |-> value[k][2]]

fragment_error(value) == \E k \in 1..Len(value) : Len(value[k]) < 2

\* list.index(value): the first position holding an equal value
list_index(vals, value) ==
    CHOOSE q \in 0..(Len(vals) - 1) :
        /\ vals[q + 1] = value
        /\ \A p \in 0..(q - 1) : vals[p + 1] # value

\* values[current + 1:] + values, as positions
find_order(current, vals) ==
    [k \in 1..(Len(vals) - current - 1) |-> current + k] \o [k \in 1..Len(vals) |-> k - 1]

\* _find, the loop over the values in order: the first whose text starts with
\* the key selects values.index(value); err: the text of a value raised
RECURSIVE find_scan(_, _, _, _)
find_scan(order, vals, data, current) ==
    IF order = <<>> THEN [err |-> FALSE, index |-> current]
    ELSE IF fragment_error(vals[Head(order) + 1])
    THEN [err |-> TRUE, index |-> current]
    ELSE IF startswith(lower(fragment_list_to_text(vals[Head(order) + 1])), lower(data))
    THEN [err |-> FALSE, index |-> list_index(vals, vals[Head(order) + 1])]
    ELSE find_scan(Tail(order), vals, data, current)

find_index(current, vals, data) == find_scan(find_order(current, vals), vals, data, current)

top_index == 0

\* bottom_index that goes to the first row
bottom_index_first(vals) == 0

bottom_index(vals) == Len(vals) - 1

\* The text a row is searched by backwards: its first column
first_column(value) == value[1]

first_column_matches(value, data) == startswith(lower(first_column(value)), lower(data))

\* backward_find_order that scans downwards
backward_find_order_downwards(current, vals) ==
    [k \in 1..(Len(vals) - current - 1) |-> current + k] \o [k \in 1..(current + 1) |-> k - 1]

\* current - 1, ..., 0, then last, ..., current
backward_find_order(current, vals) ==
    [k \in 1..current |-> current - k] \o [k \in 1..(Len(vals) - current) |-> Len(vals) - k]

backward_find_index(current, vals, data) ==
    LET hits == SelectSeq(backward_find_order(current, vals),
                          LAMBDA p : first_column_matches(vals[p + 1], data))
    IN  IF hits = <<>> THEN current ELSE hits[1]

FindKeys == {<<"x">>, <<"A">>, <<"z">>}

_up == select(up_index(_selected_index), "up", <<>>, 0, "none")

_down == select(down_index(_selected_index, values), "down", <<>>, 0, "none")

_pageup ==
    \E displayed \in 0..MaxDisplayed :
        select(pageup_index(_selected_index, displayed), "pageup", <<>>, displayed, "none")

_pagedown ==
    \E displayed \in 0..MaxDisplayed :
        select(pagedown_index(_selected_index, values, displayed), "pagedown", <<>>,
               displayed, "none")

found(result, data) ==
    select(result.index, "find", data, 0, IF result.err THEN "IndexError" ELSE "none")

_find == \E data \in FindKeys : found(find_index(_selected_index, values, data), data)

_top == select(top_index, "top", <<>>, 0, "none")

_bottom == select(bottom_index(values), "bottom", <<>>, 0, "none")

_backward_find ==
    \E data \in FindKeys :
        select(backward_find_index(_selected_index, values, data), "backward_find", data, 0,
               "none")

----------------------------------------------------------------------------
(* An edit of a row in place: row.cells[c] = new_text *)

\* The assignment replaces the text of one cell; the row keeps the widths
\* measured at construction, and its entries in the cache of _wrap_row
edit_cell(r, c, new_text) ==
    /\ cells[r][c] # new_text
    /\ cells' = [cells EXCEPT ![r][c] = new_text]
    /\ event' = [op |-> "edit", data |-> <<r, c>>, n |-> 0, from |-> _selected_index]
    /\ raised' = "none"
    /\ UNCHANGED <<values, columns, row_dims, focused, padding, separator, _selected_index,
                   text, header_text, row_widths, wrap_cache, key_buffer, current_value>>

----------------------------------------------------------------------------
(* The key bindings of Table and the key processor that dispatches them *)

\* The handler the bindings select for a key sequence: the binding of the
\* sequence itself, and for a single key without one the binding of Keys.Any
binding(keys) ==
    IF keys = <<"g", "g">> THEN "top"
    ELSE IF Len(keys) # 1 THEN "none"
    ELSE IF keys[1] \in {"k", "up"} THEN "up"
    ELSE IF keys[1] \in {"j", "down"} THEN "down"
    ELSE IF keys[1] \in {"enter", SP} THEN "click"
    ELSE "find"

\* A longer binding starts with the keys: the processor waits for the next key
is_prefix_of_longer_match(keys) == keys = <<"g">>

\* _handle_enter: the value under the cursor
_handle_enter(vals, current) == vals[current + 1]

\* The processor calls a handler: the selected index, the current value and the
\* exception after it
call_handler(handler, keys, st, vals) ==
    IF handler = "up" THEN [st EXCEPT !.index = up_index(st.index)]
    ELSE IF handler = "down" THEN [st EXCEPT !.index = down_index(st.index, vals)]
    ELSE IF handler = "top" THEN [st EXCEPT !.index = top_index]
    ELSE IF handler = "click" THEN [st EXCEPT !.value = _handle_enter(vals, st.index)]
    ELSE IF find_index(st.index, vals, <<keys[1]>>).err THEN [st EXCEPT !.raised = "IndexError"]
    ELSE [st EXCEPT !.index = find_index(st.index, vals, <<keys[1]>>).index]

\* The longest start of the buffer that has a binding, 0 when none has
longest_match(buffer) ==
    IF \E i \in 1..Len(buffer) : binding(SubSeq(buffer, 1, i)) # "none"
    THEN CHOOSE i \in 1..Len(buffer) :
             /\ binding(SubSeq(buffer, 1, i)) # "none"
             /\ \A j \in (i + 1)..Len(buffer) : binding(SubSeq(buffer, 1, j)) = "none"
    ELSE 0

\* KeyProcessor._process once the key is in the buffer: wait on a prefix of a
\* longer binding, call the handler of an exact match and empty the buffer; on
\* no match call the handler of the longest matching start, or drop the first
\* key, and go on with the rest. A handler that raises ends the processing with
\* the keys still in the buffer.
RECURSIVE process(_, _, _)
process(buffer, st, vals) ==
    IF buffer = <<>> \/ st.raised # "none" \/ is_prefix_of_longer_match(buffer)
    THEN [st EXCEPT !.buffer = buffer]
    ELSE IF binding(buffer) # "none"
    THEN IF call_handler(binding(buffer), buffer, st, vals).raised # "none"
         THEN [call_handler(binding(buffer), buffer, st, vals) EXCEPT !.buffer = buffer]
         ELSE [call_handler(binding(buffer), buffer, st, vals) EXCEPT !.buffer = <<>>]
    ELSE IF longest_match(buffer) = 0
    THEN process(Tail(buffer), st, vals)
    ELSE IF call_handler(binding(SubSeq(buffer, 1, longest_match(buffer))),
                         SubSeq(buffer, 1, longest_match(buffer)), st, vals).raised # "none"
    THEN [call_handler(binding(SubSeq(buffer, 1, longest_match(buffer))),
                       SubSeq(buffer, 1, longest_match(buffer)), st, vals)
              EXCEPT !.buffer = buffer]
    ELSE process(SubSeq(buffer, longest_match(buffer) + 1, Len(buffer)),
                 call_handler(binding(SubSeq(buffer, 1, longest_match(buffer))),
                              SubSeq(buffer, 1, longest_match(buffer)), st, vals),
                 vals)

\* The outcome of a key pressed on a buffer
pressed(buffer, key) ==
    process(Append(buffer, key),
            [index |-> _selected_index, value |-> current_value, buffer |-> <<>>,
             raised |-> "none"],
            values)

\* processor.feed(KeyPress(key)); processor.process_keys()
key_processed(key, r) ==
    /\ _selected_index' = r.index
    /\ focused' = move_focus(focused, _selected_index, r.index)
    /\ current_value' = r.value
    /\ key_buffer' = r.buffer
    /\ raised' = r.raised
    /\ event' = [op |-> "key", data |-> <<key>>, n |-> Len(key_buffer), from |-> _selected_index]
    /\ UNCHANGED <<values, columns, cells, row_dims, padding, separator,
                   text, header_text, row_widths, wrap_cache>>

PressedKeys == {"g", "j", "k", "x", "enter"}

process_keys == \E key \in PressedKeys : key_processed(key, pressed(key_buffer, key))

----------------------------------------------------------------------------
(* Construction *)

\* Row._create_cells of a list row: str() of every element; the elements are texts
_create_cells(row_data) == [k \in 1..Len(row_data) |-> row_data[k]]

\* The state after Table(values, header) with the given padding and separator
constructed(vals, header, pad, sep) ==
    /\ values = vals
    /\ columns = header
    /\ cells = [r \in 1..Len(vals) |-> _create_cells(vals[r])]
    /\ row_dims = [r \in 1..Len(vals) |-> _create_widths(_create_cells(vals[r]), pad, sep)]
    /\ focused = [r \in 1..Len(vals) |-> r = 1]
    /\ padding = pad
    /\ separator = sep
    /\ _selected_index = 0
    /\ text = <<>>
    /\ header_text = <<>>
    /\ row_widths = <<>>
    /\ wrap_cache = <<>>
    /\ key_buffer = <<>>
    /\ current_value = NoValue
    /\ raised = "none"
    /\ event = [op |-> "init", data |-> <<>>, n |-> 0, from |-> 0]

\* All tables of 1..n rows drawn from a set of rows
Tables(rows, n) == UNION {[1..k -> rows] : k \in 1..n}

DefaultPadding == 1
DefaultSeparator == <<SP>>

\* Spec: two columns, a key and a body that wraps or holds a line break
Header2 == <<<<"h">>, <<"h", "d">>>>
Rows2 ==
    { <<<<"x">>, <<"a", "b", SP, "c">>>>,
      <<<<"A", "b">>, <<"a", "b", SP, "c">>>>,
      <<<<"A", "b">>, <<"a", NL, "b">>>> }

Init ==
    \E vals \in Tables(Rows2, MaxRows) :
        constructed(vals, Header2, DefaultPadding, DefaultSeparator)

Next ==
    \/ _up
    \/ _down
    \/ _pageup
    \/ _pagedown
    \/ _find
    \/ _top
    \/ _bottom
    \/ _backward_find
    \/ \E w \in Widths : create_content(w)

Spec == Init /\ [][Next]_vars

\* SpecNav: one column of keys, navigation only
Header1 == <<<<"h">>>>
NavRows == {<<<<"x", "a">>>>, <<<<"X", "a">>>>, <<<<"a", "x">>>>, <<<<"a", "a">>>>, <<<<"b">>>>}

InitNav ==
    \E vals \in Tables(NavRows, MaxNavRows) :
        constructed(vals, Header1, DefaultPadding, DefaultSeparator)

NextNav ==
    \/ _up
    \/ _down
    \/ _pageup
    \/ _pagedown
    \/ _find
    \/ _top
    \/ _bottom
    \/ _backward_find

SpecNav == InitNav /\ [][NextNav]_vars

\* SpecKeys: one column of keys, the key presses through the key processor
KeyRows == {<<<<"a", "g">>>>, <<<<"g", "a">>>>, <<<<"x", "y">>>>}

InitKeys ==
    \E vals \in Tables(KeyRows, MaxNavRows) :
        constructed(vals, Header1, DefaultPadding, DefaultSeparator)

NextKeys == process_keys

SpecKeys == InitKeys /\ [][NextKeys]_vars

\* SpecEdit: renders, moves of the focus and edits of the first cell of a row
EditTexts == {<<"e", SP, "d", "i", "t">>}

InitEdit ==
    \E vals \in Tables(Rows2, MaxEditRows) :
        constructed(vals, Header2, DefaultPadding, DefaultSeparator)

edit_first_cell == \E r \in 1..Len(cells) : \E new_text \in EditTexts : edit_cell(r, 1, new_text)

NextEdit ==
    \/ \E w \in LayoutWidths : create_content(w)
    \/ edit_first_cell
    \/ _up
    \/ _down

SpecEdit == InitEdit /\ [][NextEdit]_vars

\* SpecLayout: rendering only, over more cell texts, separators and paddings
LayoutRows ==
    { <<<<"x">>, <<"a", "b", SP, "c">>>>,
      <<<<"A", "b">>, <<"a", NL, "b">>>>,
      <<<<"x", NL, "y">>, <<"a", NL, NL, "b", SP, "c">>>>,
      <<<<"a", "b", "c", "d">>, <<SP, "a", SP>>>>,
      <<<<"x">>, <<"a", "b", "c", "d", "e">>>>,
      <<<<"b">>, <<"a", NL>>>> }
Separators == {<<SP>>, <<"|", SP>>}

InitLayout ==
    \E vals \in Tables(LayoutRows, MaxLayoutRows) :
        \E pad \in 0..MaxPadding :
            \E sep \in Separators :
                constructed(vals, Header2, pad, sep)

NextLayout == \E w \in LayoutWidths : create_content(w)

SpecLayout == InitLayout /\ [][NextLayout]_vars

\* SpecWrap: one row of one cell, over every text of letters, spaces and line
\* breaks up to MaxTextLen, under a header wide enough for the column to take
\* every width from its minimum up
Alphabet == {"a", SP, NL}
Texts(n) == UNION {[1..k -> Alphabet] : k \in 1..n}
WideHeader == <<<<"h", "h", "h", "h">>>>
WrapWidths == (MinCellWidth + MarginWidth)..MaxWrapWidth

InitWrap ==
    \E cell \in Texts(MaxTextLen) :
        constructed(<<<<cell>>>>, WideHeader, DefaultPadding, DefaultSeparator)

NextWrap == \E w \in WrapWidths : create_content(w)

SpecWrap == InitWrap /\ [][NextWrap]_vars

----------------------------------------------------------------------------
(* Construction: TableControl.__init__ and Table.__init__ over a data source *)
(* whose rows are lists, dictionaries, pydantic objects or anything else.    *)
(* A row is [shape, items]: the items of a list are its texts, the items of  *)
(* a dictionary or of an object are its <<key, text>> pairs in order.        *)

EmptyInputError == "ValueError: Please introduce some data to print."
MissingHeaderError == "ValueError: You need to specify a header for the table."
UnsupportedDataError == "ValueError: Table data format not supported"
RowLengthError == "ValueError: Row length is different from the columns"
EmptySequenceError == "ValueError: max() arg is an empty sequence"

\* A header argument: None, or the list of the column names
NoHeader == [given |-> FALSE, columns |-> <<>>]
GivenHeader(names) == [given |-> TRUE, columns |-> names]

\* str.title over the letters of the keys
upper_char(c) == CASE c = "i" -> "I" [] c = "n" -> "N" [] OTHER -> c
is_letter(c) == c \in {"i", "d", "n", "I", "N"}
title(key) ==
    [k \in 1..Len(key) |->
        IF k = 1 \/ ~is_letter(key[k - 1]) THEN upper_char(key[k]) ELSE lower_char(key[k])]

\* Header._guess_columns: table_data[0] decides; an empty source has none
_guess_columns(table_data) ==
    IF table_data = <<>> THEN [raised |-> "IndexError", columns |-> <<>>]
    ELSE IF table_data[1].shape = "list"
    THEN [raised |-> MissingHeaderError, columns |-> <<>>]
    ELSE IF table_data[1].shape \in {"dict", "model"}
    THEN [raised |-> "none",
          columns |-> [k \in 1..Len(table_data[1].items) |-> title(table_data[1].items[k][1])]]
    ELSE [raised |-> UnsupportedDataError, columns |-> <<>>]

\* Header.__init__: the columns given, or guessed from the data
Header_init(table_data, header) ==
    IF header.given THEN [raised |-> "none", columns |-> header.columns]
    ELSE _guess_columns(table_data)

\* Row._create_cells, the dictionary and the object branches: the values whose
\* titled key is one of the columns, in the order of the row
selected_items(items, column_names) ==
    SelectSeq(items, LAMBDA item : \E c \in 1..Len(column_names) : column_names[c] = title(item[1]))

item_values(items) == [k \in 1..Len(items) |-> items[k][2]]

\* Row._create_cells: only a list is checked against the columns; a row of no
\* known shape falls off the end of the function, which returns None
Row_create_cells(row_data, column_names) ==
    IF row_data.shape = "list"
    THEN IF Len(row_data.items) # Len(column_names)
         THEN [raised |-> RowLengthError, is_none |-> FALSE, cells |-> <<>>]
         ELSE [raised |-> "none", is_none |-> FALSE, cells |-> _create_cells(row_data.items)]
    ELSE IF row_data.shape \in {"dict", "model"}
    THEN [raised |-> "none", is_none |-> FALSE,
          cells |-> item_values(selected_items(row_data.items, column_names))]
    ELSE [raised |-> "none", is_none |-> TRUE, cells |-> <<>>]

\* Row.__init__: _create_cells, then _Row.__init__ runs _create_widths, which
\* iterates over the cells (TypeError over None), takes the max of the lengths
\* of each cell's lines (ValueError for a cell without a line) and pops the
\* last separator (IndexError when there is no cell)
Row_init_raised(created) ==
    IF created.raised # "none" THEN created.raised
    ELSE IF created.is_none THEN "TypeError"
    ELSE IF \E c \in 1..Len(created.cells) : splitlines(created.cells[c]) = <<>>
    THEN EmptySequenceError
    ELSE IF created.cells = <<>> THEN "IndexError"
    ELSE "none"

\* The rows are built in order: the exception of the first row that has one
RECURSIVE rows_raised(_, _, _)
rows_raised(table_data, column_names, done) ==
    IF done = Len(table_data) THEN "none"
    ELSE IF Row_init_raised(Row_create_cells(table_data[done + 1], column_names)) # "none"
    THEN Row_init_raised(Row_create_cells(table_data[done + 1], column_names))
    ELSE rows_raised(table_data, column_names, done + 1)

\* TableControl.__init__: the guard on the length of the data, the header, the rows
built(table_data, head) ==
    IF head.raised # "none" THEN [raised |-> head.raised, columns |-> <<>>]
    ELSE [raised |-> rows_raised(table_data, head.columns, 0), columns |-> head.columns]

TableControl_init(table_data, header) ==
    IF Len(table_data) < 0 THEN [raised |-> EmptyInputError, columns |-> <<>>]
    ELSE built(table_data, Header_init(table_data, header))

\* Table.__init__: the assertion, then TableControl(values), without the header
Table_init(table_data, header) ==
    IF ~(Len(table_data) > 0) THEN [raised |-> "AssertionError", columns |-> <<>>]
    ELSE TableControl_init(table_data, NoHeader)

\* The state a constructor call ends in: the new table, or no table and the
\* exception
construct(op, table_data, header, result) ==
    /\ raised' = result.raised
    /\ event' = [op |-> op, data |-> <<table_data, header>>, n |-> Len(table_data), from |-> 0]
    /\ values' = IF result.raised = "none" THEN table_data ELSE <<>>
    /\ columns' = result.columns
    /\ cells' = IF result.raised = "none"
                THEN [r \in 1..Len(table_data) |->
                         Row_create_cells(table_data[r], result.columns).cells]
                ELSE <<>>
    /\ row_dims' = IF result.raised = "none"
                   THEN [r \in 1..Len(table_data) |->
                            _create_widths(Row_create_cells(table_data[r], result.columns).cells,
                                           DefaultPadding, DefaultSeparator)]
                   ELSE <<>>
    /\ focused' = IF result.raised = "none" THEN [r \in 1..Len(table_data) |-> r = 1] ELSE <<>>
    /\ padding' = DefaultPadding
    /\ separator' = DefaultSeparator
    /\ _selected_index' = 0
    /\ text' = <<>>
    /\ header_text' = <<>>
    /\ row_widths' = <<>>
    /\ wrap_cache' = <<>>
    /\ key_buffer' = <<>>
    /\ current_value' = NoValue

\* The data sources: rows of one or two cells in each shape, and a row that is
\* no list, dictionary or object
ListRow(texts) == [shape |-> "list", items |-> texts]
DictRow(items) == [shape |-> "dict", items |-> items]
ModelRow(items) == [shape |-> "model", items |-> items]
OtherRow == [shape |-> "other", items |-> <<>>]

KeyId == <<"i", "d">>
KeyN == <<"n">>

DataRows ==
    { ListRow(<<<<"1">>>>), ListRow(<<<<"1">>, <<"x">>>>), ListRow(<<<<"1">>, <<>>>>),
      DictRow(<<<<KeyId, <<"1">>>>>>), DictRow(<<<<KeyId, <<"1">>>>, <<KeyN, <<"x">>>>>>),
      ModelRow(<<<<KeyId, <<"1">>>>>>), ModelRow(<<<<KeyId, <<"1">>>>, <<KeyN, <<"x">>>>>>),
      OtherRow }

DataSources == UNION {[1..k -> DataRows] : k \in 0..MaxDataRows}

Headers == {NoHeader, GivenHeader(<<title(KeyId)>>), GivenHeader(<<title(KeyId), title(KeyN)>>)}

TableControl__init__ ==
    \E table_data \in DataSources : \E header \in Headers :
        construct("TableControl", table_data, header, TableControl_init(table_data, header))

Table__init__ ==
    \E table_data \in DataSources : \E header \in Headers :
        construct("Table", table_data, header, Table_init(table_data, header))

\* Before any constructor ran there is no table
InitConstruct ==
    /\ values = <<>>
    /\ columns = <<>>
    /\ cells = <<>>
    /\ row_dims = <<>>
    /\ focused = <<>>
    /\ padding = DefaultPadding
    /\ separator = DefaultSeparator
    /\ _selected_index = 0
    /\ text = <<>>
    /\ header_text = <<>>
    /\ row_widths = <<>>
    /\ wrap_cache = <<>>
    /\ key_buffer = <<>>
    /\ current_value = NoValue
    /\ raised = "none"
    /\ event = [op |-> "none", data |-> <<>>, n |-> 0, from |-> 0]

NextConstruct == TableControl__init__ \/ Table__init__

SpecConstruct == InitConstruct /\ [][NextConstruct]_vars

----------------------------------------------------------------------------
(* Properties *)

\* The lines of a rendered text: the segments before each line break
RECURSIVE text_lines(_, _)
text_lines(segments, line) ==
    IF segments = <<>> THEN (IF line = <<>> THEN <<>> ELSE <<line>>)
    ELSE IF Head(segments)[2] = <<NL>>
         THEN <<line>> \o text_lines(Tail(segments), <<>>)
         ELSE text_lines(Tail(segments), Append(line, Head(segments)))

segment_lengths(line) == [k \in 1..Len(line) |-> Len(line[k][2])]

\* The sum of the columns' effective minimum widths in the current state
minimum_width ==
    sum_layout_dimensions(
        column_dimensions(<<header_dims(columns, padding, separator)>> \o row_dims)).min

\* The last handler rendered the body without an exception
body_rendered == event.op = "create_content" /\ raised = "none"

\* C1: whenever rendering succeeds, every line of the rendered body has the
\* same number of segments and the segment at each column position (cell,
\* separator, right margin) has the same text length on every line of every row.
C1_column_equal_width ==
    body_rendered =>
        \A i, j \in 1..Len(text_lines(text, <<>>)) :
            segment_lengths(text_lines(text, <<>>)[i])
                = segment_lengths(text_lines(text, <<>>)[j])

\* A body of two rows rendered with more lines than rows: a cell wrapped
C1_witness ==
    /\ body_rendered
    /\ Len(values) = 2
    /\ Len(text_lines(text, <<>>)) > 2

\* C2: whenever the minimum widths fit the requested width, the allocation
\* succeeds, the column widths sum to exactly the requested width and every
\* line of the rendered body is exactly that long.
C2_widths_fill_the_width ==
    (event.op = "create_content" /\ minimum_width <= event.n) =>
        /\ raised # "ValueError"
        /\ SumSeq(row_widths) = event.n
        /\ raised = "none" =>
               \A i \in 1..Len(text_lines(text, <<>>)) :
                   SumSeq(segment_lengths(text_lines(text, <<>>)[i])) = event.n

\* A render whose right margin took more than its own width
C2_witness ==
    /\ body_rendered
    /\ SumSeq(row_widths) = event.n
    /\ row_widths[Len(row_widths)] > MarginWidth

\* C3: a render at a width below the sum of the minimum widths ends with the
\* insufficient-width error and leaves the body text and the header text as
\* they were before it.
C3_insufficient_width_changes_nothing ==
    [][(event'.op = "create_content" /\ minimum_width > event'.n) =>
           /\ raised' = "ValueError"
           /\ text' = text
           /\ header_text' = header_text]_vars

\* A failed render after a successful one
C3_witness ==
    /\ event.op = "create_content"
    /\ raised = "ValueError"
    /\ minimum_width > event.n
    /\ text # <<>>
    /\ header_text # <<>>

\* C4: the selected index is always a row of the table, and it is 0 right
\* after construction.
C4_focus_in_range ==
    /\ 0 <= _selected_index
    /\ _selected_index < Len(values)
    /\ event.op = "init" => _selected_index = 0

\* A page down from the last row of a table of several rows
C4_witness ==
    /\ event.op = "pagedown"
    /\ event.n > 0
    /\ Len(values) > 1
    /\ event.from = Len(values) - 1
    /\ _selected_index = Len(values) - 1

has_marker(style) == \E k \in 1..Len(style) : style[k] \in {"focused", "[SetCursorPosition]"}

\* The number of segments of the text of row r at the given widths
segments_of_row(r, sizes) == Len(styled(_wrap_row(cells[r], separator, sizes), <<>>).text)

segments_before_row(r, sizes) == SumSeq([j \in 1..(r - 1) |-> segments_of_row(j, sizes)])

\* In the body the segments first + 1 .. last carry the style, and no other
\* segment of the body or of the header carries a marker
only_marked(body, header, first, last, style) ==
    /\ first < last
    /\ last <= Len(body)
    /\ \A k \in 1..Len(body) :
           IF first < k /\ k <= last THEN body[k][1] = style ELSE ~has_marker(body[k][1])
    /\ \A k \in 1..Len(header) : ~has_marker(header[k][1])

C6_up_and_down_clamp ==
    /\ event.op = "up" =>
           _selected_index = IF event.from = 0 THEN 0 ELSE event.from - 1
    /\ event.op = "down" =>
           _selected_index = IF event.from = Len(values) - 1 THEN event.from
                             ELSE event.from + 1

\* An up from the last of three rows
C6_witness ==
    /\ event.op = "up"
    /\ Len(values) = 3
    /\ event.from = 2
    /\ _selected_index = 1

\* C7: page up selects max(0, c - 10) and page down min(N - 1, c + 10).
C7_page_step_is_ten ==
    /\ event.op = "pageup" =>
           _selected_index = IF event.from - 10 < 0 THEN 0 ELSE event.from - 10
    /\ event.op = "pagedown" =>
           _selected_index = IF event.from + 10 > Len(values) - 1 THEN Len(values) - 1
                             ELSE event.from + 10

\* C8: top selects row 0 and bottom selects row N - 1.
C8_top_and_bottom ==
    /\ event.op = "top" => _selected_index = 0
    /\ event.op = "bottom" => _selected_index = Len(values) - 1

\* A bottom from the first of three rows
C8_witness ==
    /\ event.op = "bottom"
    /\ Len(values) = 3
    /\ event.from = 0
    /\ _selected_index = 2

\* The rows whose first column starts with the key, ignoring case
matching_rows(vals, data) ==
    {p \in 0..(Len(vals) - 1) : first_column_matches(vals[p + 1], data)}

\* The first of the rows hits in the order c + 1, ..., N - 1, 0, ..., c; c if none
first_below(c, n, hits) ==
    IF hits = {} THEN c
    ELSE CHOOSE p \in hits : \A q \in hits : (p - c - 1) % n <= (q - c - 1) % n

\* The first of the rows hits in the order c - 1, ..., 0, N - 1, ..., c; c if none
first_above(c, n, hits) ==
    IF hits = {} THEN c
    ELSE CHOOSE p \in hits : \A q \in hits : (c - p - 1) % n <= (c - q - 1) % n

\* C9: forward find selects the first row, in the order c + 1, ..., N - 1, 0,
\* ..., c, whose first column starts with the key ignoring case, and leaves
\* the selection alone when there is none.
C9_forward_find ==
    event.op = "find" =>
        _selected_index = first_below(event.from, Len(values),
                                      matching_rows(values, event.data))

\* C10: backward find selects the first row, in the order c - 1, ..., 0,
\* N - 1, ..., c, whose first column starts with the key ignoring case, and
\* leaves the selection alone when there is none.
C10_backward_find ==
    event.op = "backward_find" =>
        _selected_index = first_above(event.from, Len(values),
                                      matching_rows(values, event.data))

\* A backward find with a match above and a match below the current row
C10_witness ==
    /\ event.op = "backward_find"
    /\ _selected_index < event.from
    /\ \E p \in (event.from + 1)..(Len(values) - 1) :
           first_column_matches(values[p + 1], event.data)

\* The text of the first segment of every line of a rendered text
first_column_lines(segments) ==
    [i \in 1..Len(text_lines(segments, <<>>)) |-> text_lines(segments, <<>>)[i][1][2]]

\* A text that is not empty and holds no line break
is_paragraph(s) == s # <<>> /\ ~Contains(s, NL)

\* One space, the trimmed text, one space, padded with spaces up to the width
padded_line(s, width) == ljust(<<SP>> \o strip(s) \o <<SP>>, width)

\* The last render was asked for a width that holds the minimum widths
render_fits == event.op = "create_content" /\ minimum_width <= event.n

\* C11: a cell text A, two line breaks, B, with A and B non-empty without line
\* break and no longer than the column width less two, renders as the line of
\* A, one line of spaces of the column's width, and the line of B.
C11_one_blank_line ==
    render_fits =>
        \A i \in 1..(Len(cells[1][1]) - 1) :
            LET cell == cells[1][1]
                A == SubSeq(cell, 1, i - 1)
                B == SubSeq(cell, i + 2, Len(cell))
            IN  (/\ cell[i] = NL
                 /\ cell[i + 1] = NL
                 /\ is_paragraph(A)
                 /\ is_paragraph(B)
                 /\ Len(A) <= row_widths[1] - 2
                 /\ Len(B) <= row_widths[1] - 2)
                => /\ raised = "none"
                   /\ first_column_lines(text)
                          = <<padded_line(A, row_widths[1]),
                              Repeat(SP, row_widths[1]),
                              padded_line(B, row_widths[1])>>

\* C12: a cell text A, one line break, B, with A and B non-empty without line
\* break and no longer than the column width less two, renders as exactly the
\* line of A and the line of B.
C12_one_break_two_lines ==
    render_fits =>
        \A i \in 1..Len(cells[1][1]) :
            LET cell == cells[1][1]
                A == SubSeq(cell, 1, i - 1)
                B == SubSeq(cell, i + 1, Len(cell))
            IN  (/\ cell[i] = NL
                 /\ is_paragraph(A)
                 /\ is_paragraph(B)
                 /\ Len(A) <= row_widths[1] - 2
                 /\ Len(B) <= row_widths[1] - 2)
                => /\ raised = "none"
                   /\ first_column_lines(text)
                          = <<padded_line(A, row_widths[1]), padded_line(B, row_widths[1])>>

\* C13: in a rendered body every line ends with a segment that is the line
\* break alone, and no other segment (cell, separator, margin) holds one.
C13_breaks_only_between_lines ==
    body_rendered =>
        /\ text # <<>>
        /\ text[Len(text)][2] = <<NL>>
        /\ \A k \in 1..Len(text) :
               \/ text[k][2] = <<NL>> /\ k % (Len(row_widths) + 1) = 0
               \/ ~Contains(text[k][2], NL) /\ k % (Len(row_widths) + 1) # 0

\* A rendered cell whose text holds a line break between two letters
C13_witness ==
    /\ body_rendered
    /\ \E i \in 2..(Len(cells[1][1]) - 1) :
           cells[1][1][i] = NL /\ cells[1][1][i - 1] = "a" /\ cells[1][1][i + 1] = "a"
    /\ Len(first_column_lines(text)) = 2

\* The sum of the columns' preferred widths in the current state
preferred_width ==
    sum_layout_dimensions(
        column_dimensions(<<header_dims(columns, padding, separator)>> \o row_dims)).preferred

\* No cell of any row is empty or holds a line break
plain_cells ==
    \A r \in 1..Len(cells) : \A c \in 1..Len(cells[r]) : is_paragraph(cells[r][c])

\* C14: whatever the padding, a table whose cells are non-empty without line
\* break, rendered at a width that holds the preferred widths, has one line per
\* row, and every cell segment is one space, the trimmed cell text and one
\* space, padded with spaces to the column's width.
C14_one_line_at_preferred_width ==
    (event.op = "create_content" /\ preferred_width <= event.n /\ plain_cells) =>
        /\ raised = "none"
        /\ Len(text_lines(text, <<>>)) = Len(cells)
        /\ \A r \in 1..Len(cells) : \A c \in 1..Len(cells[r]) :
               text_lines(text, <<>>)[r][2 * c - 1][2]
                   = padded_line(cells[r][c], row_widths[2 * c - 1])

\* What create_text returns for the current table, focus and a width when no
\* line comes from the cache
uncached(w) ==
    create_text(<<>>, columns, cells, row_dims, focused, padding, separator, w)

\* C15: the body and the header block of every successful render are the ones
\* computed from the table, the focused row and the width alone, also when the
\* render is a repeat that takes its lines from the cache: two renders of the
\* same table at the same width with the same focus return the same segments.
C15_render_twice_same ==
    body_rendered =>
        /\ uncached(event.n).raised = "none"
        /\ text = uncached(event.n).text
        /\ header_text = uncached(event.n).header_text

\* A render of a two-row table repeated at a width rendered before: the header
\* and both rows came from the cache
C15_witness ==
    /\ body_rendered
    /\ Len(cells) = 2
    /\ event.data = <<3>>
    /\ Len(text_lines(text, <<>>)) > 2

\* The last step was a constructor call
constructor_ran == event.op \in {"TableControl", "Table"}

\* C16: a constructor called on a data source of zero rows ends with the
\* empty-input error, with or without a header, and produces no table.
C16_empty_input_error ==
    (constructor_ran /\ event.data[1] = <<>>) => raised = EmptyInputError

\* The number of cells a row yields for the columns
extracted_cells(row_data, column_names) ==
    IF row_data.shape = "list" THEN Len(row_data.items)
    ELSE Cardinality({k \in 1..Len(row_data.items) :
                         \E c \in 1..Len(column_names) :
                             column_names[c] = title(row_data.items[k][1])})

supported(row_data) == row_data.shape \in {"list", "dict", "model"}

\* C17: with a header given and every row a list, a dictionary or an object, a
\* row that yields a number of cells other than the number of columns makes the
\* constructor end with the row-length error; and every table a constructor
\* produces has as many cells in each row as it has columns.
C17_row_length_checked ==
    constructor_ran =>
        /\ (/\ event.op = "TableControl"
            /\ event.data[2].given
            /\ \A r \in 1..Len(event.data[1]) : supported(event.data[1][r])
            /\ \E r \in 1..Len(event.data[1]) :
                   extracted_cells(event.data[1][r], event.data[2].columns)
                       # Len(event.data[2].columns))
           => raised = RowLengthError
        /\ raised = "none" => \A r \in 1..Len(cells) : Len(cells[r]) = Len(columns)

\* C18: a constructor called on rows that are no list, dictionary or object
\* ends with the unsupported-data error, with or without a header; called on
\* lists without a header it ends with the missing-header error.
C18_unsupported_shape_error ==
    (constructor_ran /\ event.data[1] # <<>>) =>
        /\ (\A r \in 1..Len(event.data[1]) : ~supported(event.data[1][r]))
               => raised = UnsupportedDataError
        /\ (/\ \A r \in 1..Len(event.data[1]) : event.data[1][r].shape = "list"
            /\ (event.op = "Table" \/ ~event.data[2].given))
               => raised = MissingHeaderError

C20_render_never_fails ==
    render_fits => raised = "none" /\ text # <<>>

\* The column-wise largest dimensions of the header and the rows of the
\* current table, and the growth loop run over them for a width
effective_dimensions ==
    column_dimensions(<<header_dims(columns, padding, separator)>> \o row_dims)

loop_exit(w) ==
    growth(effective_dimensions, weighted_items(effective_dimensions),
           item_weights(effective_dimensions, weighted_items(effective_dimensions)), w)

\* The positions of the content columns in a vector of widths
content_columns == {k \in 1..(2 * Len(columns)) : k % 2 = 1}

\* C22: in every vector of widths the allocation returns, every content column
\* lies between the minimum and the preferred size of its effective dimension,
\* every separator keeps its own width, and the right margin is at least 1.
C22_sizes_within_dimensions ==
    (event.op = "create_content" /\ raised # "ValueError") =>
        /\ Len(row_widths) = 2 * Len(columns)
        /\ \A k \in content_columns :
               /\ effective_dimensions[k].min <= row_widths[k]
               /\ row_widths[k] <= effective_dimensions[k].preferred
        /\ \A k \in 1..(Len(row_widths) - 1) :
               k % 2 = 0 => row_widths[k] = Len(separator)
        /\ row_widths[Len(row_widths)] >= 1

\* An allocation that left one content column above its minimum and below its
\* preferred size
C22_witness ==
    /\ event.op = "create_content"
    /\ raised # "ValueError"
    /\ \E k \in content_columns :
           /\ effective_dimensions[k].min < row_widths[k]
           /\ row_widths[k] < effective_dimensions[k].preferred

\* C23: whenever the minimum widths fit the width, the growth loop ends, after
\* no more than one round over the columns for every unit it hands out, with
\* sizes that add up to exactly the smaller of the width and the sum of the
\* preferred sizes.
C23_growth_ends_at_the_stop ==
    (event.op = "create_content" /\ minimum_width <= event.n) =>
        /\ SumSeq(loop_exit(event.n).sizes) = Min(event.n, preferred_width)
        /\ loop_exit(event.n).selections
               <= (Min(event.n, preferred_width) - minimum_width) * Len(row_widths)

\* An allocation whose loop handed out a unit and passed over a column that could
\* not grow
C23_witness ==
    /\ event.op = "create_content"
    /\ minimum_width < event.n
    /\ loop_exit(event.n).selections
           > Min(event.n, preferred_width) - minimum_width
    /\ Min(event.n, preferred_width) > minimum_width

\* C24: when the width holds the minimum but not the preferred widths, a content
\* column that ends below its preferred size is never more than one unit of
\* growth behind another content column.
C24_round_robin_growth ==
    (/\ event.op = "create_content"
     /\ minimum_width <= event.n
     /\ event.n < preferred_width) =>
        \A i, j \in content_columns :
            row_widths[i] < effective_dimensions[i].preferred
                => row_widths[j] - effective_dimensions[j].min
                       <= row_widths[i] - effective_dimensions[i].min + 1

\* An allocation that stopped with one content column a unit ahead of another
\* that is still below its preferred size
C24_witness ==
    /\ event.op = "create_content"
    /\ minimum_width <= event.n
    /\ event.n < preferred_width
    /\ \E i, j \in content_columns :
           /\ row_widths[i] < effective_dimensions[i].preferred
           /\ row_widths[j] - effective_dimensions[j].min
                  = row_widths[i] - effective_dimensions[i].min + 1

\* The first tag of the style of a line's first segment: the row's base style
line_base_style(line) == line[1][1][1]

\* The lines of a body grouped by row: consecutive rows alternate their base
\* style, so a row is a longest run of lines of one base style
RECURSIVE line_groups(_, _)
line_groups(lines, group) ==
    IF lines = <<>> THEN (IF group = <<>> THEN <<>> ELSE <<group>>)
    ELSE IF group = <<>> \/ line_base_style(Head(lines)) = line_base_style(group[1])
    THEN line_groups(Tail(lines), Append(group, Head(lines)))
    ELSE <<group>> \o line_groups(Tail(lines), <<Head(lines)>>)

\* The lines of row r in the rendered body, each a sequence of segments
row_lines(r) == line_groups(text_lines(text, <<>>), <<>>)[r]

\* The number of lines the wrapper emits for cell c of row r at its width
wrapped_height(r, c) == Len(wrap_cell(cells[r][c], row_widths[2 * c - 1], 0, <<>>).lines)

\* The number of lines each column of row r holds before it is filled: the
\* wrapped lines of a cell, one line for a separator and for the margin
own_heights(r) ==
    [k \in 1..Len(row_widths) |-> IF k % 2 = 1 THEN wrapped_height(r, (k + 1) \div 2) ELSE 1]

\* The largest number of wrapped lines of any cell of a row
tallest_cell(heights) == MaxSeq([c \in 1..(Len(heights) \div 2) |-> heights[2 * c - 1]])

\* The lines of a row are as many as its tallest cell has, at least one, each
\* of one segment per column, and below a column's own lines are spaces
columns_filled(lines, heights, sizes) ==
    /\ Len(lines) = tallest_cell(heights)
    /\ Len(lines) >= 1
    /\ \A i \in 1..Len(lines) :
           /\ Len(lines[i]) = Len(sizes)
           /\ \A k \in 1..Len(sizes) :
                  i > heights[k] => lines[i][k][2] = Repeat(SP, sizes[k])

rows_filled(groups) ==
    /\ Len(groups) = Len(cells)
    /\ \A r \in 1..Len(cells) : columns_filled(groups[r], own_heights(r), row_widths)

\* C25: in the rendered body every column of a row (cells, separators, right
\* margin) contributes the same number of lines, the largest number of wrapped
\* lines of any cell of the row and at least 1, and a column with fewer lines
\* is filled with lines of spaces of the column's allocated width.
C25_row_columns_equal_height ==
    body_rendered => rows_filled(line_groups(text_lines(text, <<>>), <<>>))

\* A row rendered with a cell of one line beside a cell of two lines: the
\* shorter cell, the separator and the margin are filled
C25_witness ==
    /\ body_rendered
    /\ \E r \in 1..Len(cells) :
           /\ wrapped_height(r, 1) = 1
           /\ wrapped_height(r, 2) = 2
           /\ Len(row_lines(r)) = 2

\* The text without its spaces and line breaks
letters(s) == SelectSeq(s, LAMBDA c : c \notin {SP, NL})

\* The lines of a column concatenated in order
RECURSIVE concatenated(_)
concatenated(lines) ==
    IF lines = <<>> THEN <<>> ELSE Head(lines) \o concatenated(Tail(lines))

\* C26: for every cell text of letters, spaces and line breaks and every column
\* width of at least 3, the lines emitted for the cell, concatenated and with
\* spaces deleted, are the cell text with spaces and line breaks deleted.
C26_wrapping_keeps_the_letters ==
    render_fits =>
        /\ raised = "none"
        /\ letters(concatenated(first_column_lines(text))) = letters(cells[1][1])

\* A row of the data source is a list of as many texts as the header has
\* names, one of them the empty string
row_with_empty_cell(row_data, header) ==
    /\ row_data.shape = "list"
    /\ Len(row_data.items) = Len(header.columns)
    /\ \E c \in 1..Len(row_data.items) : row_data.items[c] = <<>>

\* C30: a row with an empty-string cell is measured and rendered without
\* error: the constructor of a table of well-formed list rows under a given
\* header, one of them with an empty cell, ends without exception, the empty
\* cell is measured with the minimum width, and the wrapper emits no line for it.
C30_empty_cell_measured ==
    (/\ event.op = "TableControl"
     /\ event.data[2].given
     /\ \A r \in 1..Len(event.data[1]) :
            /\ event.data[1][r].shape = "list"
            /\ Len(event.data[1][r].items) = Len(event.data[2].columns)
     /\ \E r \in 1..Len(event.data[1]) : row_with_empty_cell(event.data[1][r], event.data[2]))
    => /\ raised = "none"
       /\ \A r \in 1..Len(cells) : \A c \in 1..Len(cells[r]) :
              cells[r][c] = <<>> =>
                  /\ row_dims[r][2 * c - 1].min = MinCellWidth
                  /\ wrap_cell(cells[r][c], MinCellWidth, 0, <<>>).lines = <<>>

NavigationOps == {"up", "down", "pageup", "pagedown", "find", "top", "bottom", "backward_find"}

\* The texts of the segments, without their styles
segment_texts(segments) == [k \in 1..Len(segments) |-> segments[k][2]]

\* The render of the table at width w with the focus on row f (0-based)
rendered_with_focus(f, w) ==
    create_text(<<>>, columns, cells, row_dims, [r \in 1..Len(cells) |-> r = f + 1],
                padding, separator, w)

\* A navigation step leaves the data, the header, the cells, their dimensions,
\* the allocated widths and the rendered segments alone, and changes the
\* focused flag of no row but the one losing and the one gaining the focus
navigation_frame ==
    event'.op \in NavigationOps =>
        /\ UNCHANGED <<values, columns, cells, row_dims, padding, separator,
                       row_widths, text, header_text>>
        /\ Len(focused') = Len(focused)
        /\ \A r \in 1..Len(focused) :
               r \notin {_selected_index + 1, _selected_index' + 1} => focused'[r] = focused[r]
        /\ focused'[_selected_index' + 1]

\* The rendered body and header block have the same segment texts as a render
\* of the same table at the same width with the focus on any other row
same_texts_for_every_focus ==
    body_rendered =>
        \A f \in 0..(Len(values) - 1) :
            /\ rendered_with_focus(f, event.n).raised = "none"
            /\ segment_texts(rendered_with_focus(f, event.n).text) = segment_texts(text)
            /\ segment_texts(rendered_with_focus(f, event.n).header_text)
                   = segment_texts(header_text)

C28_top_is_a_composite ==
    [][event'.op = "key" =>
          /\ (key_buffer = <<>> /\ event'.data = <<"g">>) =>
                 /\ key_buffer' = <<"g">>
                 /\ _selected_index' = _selected_index
                 /\ focused' = focused
          /\ (key_buffer = <<"g">> /\ event'.data = <<"g">>) =>
                 /\ key_buffer' = <<>>
                 /\ _selected_index' = 0
          /\ (key_buffer = <<"g">> /\ event'.data # <<"g">>) =>
                 /\ key_buffer' = <<>>
                 /\ raised' = "none"
                 /\ _selected_index' = pressed(<<>>, event'.data[1]).index]_vars

\* C29: at every moment after construction the exposed current value is the
\* full data row at the focused index.
C29_current_value_is_focused_row ==
    current_value = values[_selected_index + 1]

\* C21: over renders at varying widths, navigation and edits of a row's cell
\* text in place, the body of every successful render is the one a pipeline
\* without cache computes from the current cells, the current focus and the
\* width asked for: a render after an edit shows the new text, and no line
\* wrapped for another vector of widths is used.
C21_render_equals_cache_free ==
    body_rendered =>
        /\ uncached(event.n).raised = "none"
        /\ text = uncached(event.n).text

====
